---- MODULE Spec2Model ----
(***************************************************************************)
(* Truss_3D (src/Truss_3D.py): static analysis of 3D pin-jointed trusses   *)
(* by the direct stiffness method.  The class holds six input mappings     *)
(* and six output fields; its one operation, Solve(), runs eleven steps    *)
(* and stores the results.                                                 *)
(*                                                                         *)
(* Numbers.  The source computes in IEEE doubles.  The model computes in   *)
(* exact rationals <<n, d>> (d > 0, lowest terms); the inputs are chosen   *)
(* so that every member length is an integer, hence every intermediate     *)
(* value of the source is a rational.  np.round is modelled as what it     *)
(* does (round half to even), np.linalg.inv as the exact solution of the   *)
(* linear system, raising LinAlgError exactly when the matrix is singular. *)
(*                                                                         *)
(* Dictionaries.  A Python dict iterates in insertion order, so the        *)
(* elements, supports and forces mappings are sequences of entries; lookup *)
(* by key finds the entry with that key.  nodes, elasticity and cross_area *)
(* are read by key only and are sequences indexed by the keys 1..n.        *)
(*                                                                         *)
(* Inputs.  Every element joins two distinct nodes of the nodes mapping    *)
(* and the element keys are 1..M, so Steps 1 to 3 raise no KeyError and    *)
(* divide by no zero length.                                               *)
(***************************************************************************)
EXTENDS Integers, Sequences, FiniteSets, TLC

(***************************************************************************)
(* Exact rational arithmetic                                               *)
(***************************************************************************)
Abs(x) == IF x < 0 THEN -x ELSE x

RECURSIVE GCD(_, _)
GCD(a, b) == IF b = 0 THEN a ELSE GCD(b, a % b)

\* the rational n/d in lowest terms with a positive denominator (d # 0)
Rat(n, d) ==
    LET g == GCD(Abs(n), Abs(d))
        s == IF d < 0 THEN -1 ELSE 1
    IN  <<(s * n) \div g, (s * d) \div g>>

RZero == <<0, 1>>
RInt(n) == <<n, 1>>
RAdd(a, b) ==
    IF a[1] = 0 THEN b
    ELSE IF b[1] = 0 THEN a
    ELSE IF a[2] = b[2] THEN Rat(a[1] + b[1], a[2])
    ELSE Rat(a[1] * b[2] + b[1] * a[2], a[2] * b[2])
RNeg(a) == <<-a[1], a[2]>>
RSub(a, b) == RAdd(a, RNeg(b))
RMul(a, b) ==
    IF a[1] = 0 \/ b[1] = 0 THEN <<0, 1>>
    ELSE IF a[2] = 1 /\ b[2] = 1 THEN <<a[1] * b[1], 1>>
    ELSE Rat(a[1] * b[1], a[2] * b[2])
RDiv(a, b) == IF a[1] = 0 THEN <<0, 1>> ELSE Rat(a[1] * b[2], a[2] * b[1])
RSign(a) == IF a[1] > 0 THEN 1 ELSE IF a[1] < 0 THEN -1 ELSE 0

\* a sequence with every element evaluated
Force(s) == SubSeq(s, 1, Len(s))

RECURSIVE RSum(_)
RSum(s) == IF Len(s) = 0 THEN RZero ELSE RAdd(s[1], RSum(Tail(s)))

Dot(u, v) == RSum(Force([i \in 1..Len(u) |-> RMul(u[i], v[i])]))
MatVec(M, v) == Force([i \in 1..Len(M) |-> Dot(M[i], v)])
Transpose(M, ncols) ==
    Force([j \in 1..ncols |-> Force([i \in 1..Len(M) |-> M[i][j]])])
MatMul(A, B, ncolsB) ==
    LET Bt == Transpose(B, ncolsB)
    IN  Force([i \in 1..Len(A) |-> Force([j \in 1..ncolsB |-> Dot(A[i], Bt[j])])])
ZeroVec(n) == Force([i \in 1..n |-> RZero])
ZeroMat(n) == Force([i \in 1..n |-> ZeroVec(n)])

\* np.sqrt on a perfect square (the inputs give every member an integer length)
Sqrt(n) == CHOOSE r \in 0..n : r * r = n

\* np.round(x): the nearest integer, a tie going to the even one
RoundHalfEven(a) ==
    LET fl == a[1] \div a[2]
        twice == 2 * (a[1] - fl * a[2])
    IN  IF twice < a[2] THEN fl
        ELSE IF twice > a[2] THEN fl + 1
        ELSE IF fl % 2 = 0 THEN fl ELSE fl + 1

\* np.round(x, decimals): rint(x * 10^decimals) / 10^decimals
RoundDecimals(a, scale) == Rat(RoundHalfEven(RMul(a, RInt(scale))), scale)

(***************************************************************************)
(* Python containers                                                       *)
(***************************************************************************)
\* the value a dict (a sequence of [key, val] entries) holds under key
Lookup(dict, key) == dict[CHOOSE p \in 1..Len(dict) : dict[p].key = key].val
Keys(dict) == {dict[p].key : p \in 1..Len(dict)}

\* an ascending sequence of the members of a finite set of integers
RECURSIVE Ascending(_)
Ascending(S) ==
    IF S = {} THEN <<>>
    ELSE LET m == CHOOSE x \in S : \A y \in S : x <= y
         IN  <<m>> \o Ascending(S \ {m})

\* a[idx0] on an array of length n, as Python indexes it: the 1-based position
\* that a 0-based index (negative: counted from the end) denotes, 0 when the
\* access raises IndexError
PyIndex(idx0, n) ==
    IF 0 <= idx0 /\ idx0 < n THEN idx0 + 1
    ELSE IF -n <= idx0 /\ idx0 < 0 THEN n + idx0 + 1
    ELSE 0

\* np.delete(v, obj = dofs, axis = 0): v without the 0-based positions in dofs
Delete(v, dofs) ==
    LET keep == Ascending({p \in 1..Len(v) : \A q \in 1..Len(dofs) : dofs[q] # p - 1})
    IN  Force([a \in 1..Len(keep) |-> v[keep[a]]])

(***************************************************************************)
(* The helpers of Truss_3D                                                 *)
(***************************************************************************)
\* (cx, cy, cz, length) of an element
Direction_Cosines(element, nodes_, elements_) ==
    LET from_node == Lookup(elements_, element)[1]
        to_node == Lookup(elements_, element)[2]
        from_point == nodes_[from_node]
        to_point == nodes_[to_node]
        dx == to_point[1] - from_point[1]
        dy == to_point[2] - from_point[2]
        dz == to_point[3] - from_point[3]
        length == Sqrt(dx * dx + dy * dy + dz * dz)
    IN  <<Rat(dx, length), Rat(dy, length), Rat(dz, length), RInt(length)>>

\* the 2x6 transformation matrix T
Transformation(c) ==
    << <<c[1], c[2], c[3], RZero, RZero, RZero>>,
       <<RZero, RZero, RZero, c[1], c[2], c[3]>> >>

\* s * [[1, -1], [-1, 1]]
Axial(s) == << <<s, RNeg(s)>>, <<RNeg(s), s>> >>

\* K = T^t . k . T, the element's 6x6 stiffness in the global frame
Assemble_Stiffness_Matrix(element, elasticity_, area, nodes_, elements_) ==
    LET c == Direction_Cosines(element, nodes_, elements_)
        k == Axial(RDiv(RInt(elasticity_[element] * area[element]), c[4]))
        T == Transformation(c)
    IN  MatMul(MatMul(Transpose(T, 6), k, 2), T, 6)

\* K[np.ix_(dofs, dofs)] += k, dofs the six 0-based DOFs of nodes i and j
Assemble_Global_Stiffness(K, k, i, j) ==
    LET dofs == <<3*i - 3, 3*i - 2, 3*i - 1, 3*j - 3, 3*j - 2, 3*j - 1>>
        At(r) == {a \in 1..6 : dofs[a] = r - 1}
    IN  Force([r \in 1..Len(K) |-> Force([c \in 1..Len(K) |->
            IF At(r) # {} /\ At(c) # {}
            THEN RAdd(K[r][c], k[CHOOSE a \in At(r) : TRUE][CHOOSE b \in At(c) : TRUE])
            ELSE K[r][c]])])

\* the array dofs of Support_Vector after the entries before position p are
\* written: each support writes its node's three slots
RECURSIVE Support_Flags(_, _, _)
Support_Flags(restrained_dofs, dofs, p) ==
    IF p > Len(restrained_dofs) THEN dofs
    ELSE LET dof == restrained_dofs[p].key
             flags == restrained_dofs[p].val
             n == Len(dofs)
             w1 == [dofs EXCEPT ![PyIndex(dof * 3 - 3, n)] = flags[1]]
             w2 == [w1 EXCEPT ![PyIndex(dof * 3 - 2, n)] = flags[2]]
             w3 == [w2 EXCEPT ![PyIndex(dof * 3 - 1, n)] = flags[2]]
         IN  Support_Flags(restrained_dofs, w3, p + 1)

\* a write of a node's three slots into an array of 3 * len(nodes) raises
Index_Raises(dict, nodes_) ==
    \E p \in 1..Len(dict) : \E a \in 1..3 :
        PyIndex(dict[p].key * 3 - a, 3 * Len(nodes_)) = 0

\* the ascending 1-based indices of the slots that hold 1
Support_Vector(restrained_dofs, nodes_) ==
    LET dofs == Support_Flags(restrained_dofs, [i \in 1..3 * Len(nodes_) |-> 0], 1)
    IN  Ascending({i + 1 : i \in {i0 \in 0..Len(dofs) - 1 : dofs[i0 + 1] = 1}})

\* the 0-based list the reducers build from the 1-based restrained DOFs
Zero_Based(restrained_dofs) ==
    Force([i \in 1..Len(restrained_dofs) |-> restrained_dofs[i] - 1])

\* K_global without the restrained rows and columns
Apply_Boundary_Conditions(restrained_dofs, K_global) ==
    LET dofs == Zero_Based(restrained_dofs)
        k == Delete(K_global, dofs)
    IN  Force([r \in 1..Len(k) |-> Delete(k[r], dofs)])

\* the force array after the entries before position p are written
RECURSIVE Force_Array(_, _, _)
Force_Array(forces_, f, p) ==
    IF p > Len(forces_) THEN f
    ELSE LET force == forces_[p].key
             n == Len(f)
             w1 == [f EXCEPT ![PyIndex(force * 3 - 3, n)] = RInt(forces_[p].val[1])]
             w2 == [w1 EXCEPT ![PyIndex(force * 3 - 2, n)] = RInt(forces_[p].val[2])]
             w3 == [w2 EXCEPT ![PyIndex(force * 3 - 1, n)] = RInt(forces_[p].val[3])]
         IN  Force_Array(forces_, w3, p + 1)

\* the applied loads without the restrained entries
Assemble_Force_Vector(forces_, restrained_dofs, nodes_) ==
    Delete(Force_Array(forces_, ZeroVec(3 * Len(nodes_)), 1), Zero_Based(restrained_dofs))

\* Gauss-Jordan elimination of the augmented matrix M = [K | f] from column k
\* on: singular when a column has no pivot left, else the reduced matrix
RECURSIVE Eliminate(_, _)
Eliminate(M, k) ==
    LET n == Len(M)
    IN  IF k > n THEN [singular |-> FALSE, M |-> M]
        ELSE LET cand == {r \in k..n : M[r][k][1] # 0}
             IN  IF cand = {} THEN [singular |-> TRUE, M |-> <<>>]
                 ELSE LET p == CHOOSE r \in cand : \A q \in cand : r <= q
                          S == [r \in 1..n |-> IF r = k THEN M[p]
                                               ELSE IF r = p THEN M[k] ELSE M[r]]
                          rowk == Force([c \in 1..n + 1 |-> RDiv(S[k][c], S[k][k])])
                          M2 == Force([r \in 1..n |->
                                   IF r = k THEN rowk
                                   ELSE IF S[r][k][1] = 0 THEN S[r]
                                   ELSE Force([c \in 1..n + 1 |->
                                            RSub(S[r][c], RMul(S[r][k], rowk[c]))])])
                      IN  Eliminate(M2, k + 1)

\* np.linalg.inv(K_new).dot(f_new): LinAlgError (raises) when K_new is
\* singular, else the u with K_new . u = f_new
Inv_Dot(K_new, f_new) ==
    LET e == Eliminate(Force([r \in 1..Len(K_new) |-> Append(K_new[r], f_new[r])]), 1)
    IN  IF e.singular THEN [raises |-> TRUE, u |-> <<>>]
        ELSE [raises |-> FALSE,
              u |-> Force([r \in 1..Len(K_new) |-> e.M[r][Len(K_new) + 1]])]

\* faulty variant: the loop without j += 1: every free slot takes displacements[j]
RECURSIVE Displacement_Loop_Stuck(_, _, _, _, _)
Displacement_Loop_Stuck(displacements, support_vector_new, i, j, n) ==
    IF i >= n THEN <<>>
    ELSE IF \E q \in 1..Len(support_vector_new) : support_vector_new[q] = i
         THEN <<RZero>>
                  \o Displacement_Loop_Stuck(displacements, support_vector_new, i + 1, j, n)
         ELSE <<displacements[j + 1]>>
                  \o Displacement_Loop_Stuck(displacements, support_vector_new, i + 1, j, n)

\* the loop of Truss_Global_Displacement from 0-based index i on, j the number
\* of reduced entries consumed so far
RECURSIVE Displacement_Loop(_, _, _, _, _)
Displacement_Loop(displacements, support_vector_new, i, j, n) ==
    IF i >= n THEN <<>>
    ELSE IF \E q \in 1..Len(support_vector_new) : support_vector_new[q] = i
         THEN <<RZero>> \o Displacement_Loop(displacements, support_vector_new, i + 1, j, n)
         ELSE <<displacements[j + 1]>>
                  \o Displacement_Loop(displacements, support_vector_new, i + 1, j + 1, n)

\* the reduced displacements scattered back into the 3 * len(nodes) vector
Truss_Global_Displacement(displacements, Support_Vector_, nodes_) ==
    Displacement_Loop(displacements, Zero_Based(Support_Vector_), 0, 0, 3 * Len(nodes_))

\* np.round(K_global . u)
Solve_Reactions(K_global, displacement_vector) ==
    LET r == MatVec(K_global, displacement_vector)
    IN  Force([i \in 1..Len(r) |-> RInt(RoundHalfEven(r[i]))])

\* decimals of np.round in Element_Displacement, as the factor 10^5
DisplacementScale == 100000

\* faulty variant: the to-node's displacements taken before the from-node's
Element_Displacement_Swapped(element_number, global_displacement, elements_) ==
    LET fromNode == Lookup(elements_, element_number)[1]
        toNode == Lookup(elements_, element_number)[2]
        u == <<3 * toNode - 2, 3 * toNode - 1, 3 * toNode,
               3 * fromNode - 2, 3 * fromNode - 1, 3 * fromNode>>
    IN  Force([a \in 1..6 |->
            RoundDecimals(global_displacement[(u[a] - 1) + 1], DisplacementScale)])

\* the six end displacements of an element, rounded to 5 decimals
Element_Displacement(element_number, global_displacement, elements_) ==
    LET fromNode == Lookup(elements_, element_number)[1]
        toNode == Lookup(elements_, element_number)[2]
        u == <<3 * fromNode - 2, 3 * fromNode - 1, 3 * fromNode,
               3 * toNode - 2, 3 * toNode - 1, 3 * toNode>>
    IN  Force([a \in 1..6 |->
            RoundDecimals(global_displacement[(u[a] - 1) + 1], DisplacementScale)])

\* k . (T . displacement_vector[element - 1]), k the axial stiffness EA/L
Solve_Member_Force(element, displacement_vector, area, elasticity_, nodes_, elements_) ==
    LET c == Direction_Cosines(element, nodes_, elements_)
        u == MatVec(Transformation(c), displacement_vector[(element - 1) + 1])
        k == Axial(RDiv(RInt(elasticity_[element] * area[element]), c[4]))
    IN  MatVec(k, u)

\* k . (T . displacement_vector[element - 1]), k = E/L
Solve_Member_Stress(element, displacement_vector, elasticity_, nodes_, elements_) ==
    LET c == Direction_Cosines(element, nodes_, elements_)
        u == MatVec(Transformation(c), displacement_vector[(element - 1) + 1])
        k == Axial(RDiv(RInt(elasticity_[element]), c[4]))
    IN  MatVec(k, u)

(***************************************************************************)
(* Solve()                                                                 *)
(***************************************************************************)
\* Step 1: the lengths of all members, in the order elements presents them
Member_Lengths(nodes_, elements_) ==
    Force([p \in 1..Len(elements_) |->
        Direction_Cosines(elements_[p].key, nodes_, elements_)[4]])

\* Step 2: the stiffness matrices of all members, in the same order
K_Elems(nodes_, elements_, elasticity_, cross_area_) ==
    Force([p \in 1..Len(elements_) |->
        Assemble_Stiffness_Matrix(elements_[p].key, elasticity_, cross_area_,
                                  nodes_, elements_)])

\* Step 3: the loop over enumerate(k_elems) from 0-based index i on;
\* k_elems[i] is added at the end nodes of elements[i + 1]
RECURSIVE Global_Loop(_, _, _, _)
Global_Loop(K, k_elems, elements_, i) ==
    IF i >= Len(k_elems) THEN K
    ELSE Global_Loop(
             Assemble_Global_Stiffness(K, k_elems[i + 1],
                 Lookup(elements_, i + 1)[1], Lookup(elements_, i + 1)[2]),
             k_elems, elements_, i + 1)

Assemble_K_Global(nodes_, elements_, elasticity_, cross_area_) ==
    Global_Loop(ZeroMat(3 * Len(nodes_)),
                K_Elems(nodes_, elements_, elasticity_, cross_area_), elements_, 0)

\* Step 9: the end displacements of all members, in the order of elements
Element_Displacements(global_displacements, elements_) ==
    Force([p \in 1..Len(elements_) |->
        Element_Displacement(elements_[p].key, global_displacements, elements_)])

\* faulty variant: the dict comprehension taking component [0] of each force pair
Member_Forces_First(element_displacements, cross_area_, elasticity_, nodes_, elements_) ==
    LET member_forces == Force([p \in 1..Len(elements_) |->
            Solve_Member_Force(elements_[p].key, element_displacements, cross_area_,
                               elasticity_, nodes_, elements_)])
    IN  [key \in Keys(elements_) |-> member_forces[(key - 1) + 1][0 + 1]]

\* Step 10: the list of force pairs, then the dict comprehension
\* {key: member_forces[key - 1][1] for key in elements}
Member_Forces(element_displacements, cross_area_, elasticity_, nodes_, elements_) ==
    LET member_forces == Force([p \in 1..Len(elements_) |->
            Solve_Member_Force(elements_[p].key, element_displacements, cross_area_,
                               elasticity_, nodes_, elements_)])
    IN  [key \in Keys(elements_) |-> member_forces[(key - 1) + 1][1 + 1]]

\* Step 11: the same for the stresses
Member_Stresses(element_displacements, elasticity_, nodes_, elements_) ==
    LET member_stresses == Force([p \in 1..Len(elements_) |->
            Solve_Member_Stress(elements_[p].key, element_displacements,
                                elasticity_, nodes_, elements_)])
    IN  [key \in Keys(elements_) |-> member_stresses[(key - 1) + 1][1 + 1]]

VARIABLES
    nodes, elements, supports, forces, elasticity, cross_area,   \* the inputs
    K_global_, displacements_, reactions_, member_forces_,
    member_stresses_, member_lengths_,                           \* the outputs
    raised,      \* the exception the last Solve() ended with, "none" before any
    call, arg, ret   \* a helper applied on its own: its name, inputs, result

inputs == <<nodes, elements, supports, forces, elasticity, cross_area>>
outputs == <<K_global_, displacements_, reactions_, member_forces_,
             member_stresses_, member_lengths_>>
harness == <<call, arg, ret>>
vars == <<inputs, outputs, raised, harness>>

\* an attribute __init__ does not create
Unset == "unset"

(***************************************************************************)
(* The inputs: small trusses whose members have integer lengths            *)
(***************************************************************************)
Entry(k, v) == [key |-> k, val |-> v]

\* one bar along x: the scenario of the specification
Bar == [nodes |-> << <<0, 0, 0>>, <<10, 0, 0>> >>,
        elements |-> << Entry(1, <<1, 2>>) >>,
        elasticity |-> <<200>>, cross_area |-> <<1>>]

\* node 1 held by a bar along y and a 3-4-5 diagonal in the y-z plane
Skew == [nodes |-> << <<0, 0, 0>>, <<0, 4, 0>>, <<0, 3, 4>> >>,
         elements |-> << Entry(1, <<2, 1>>), Entry(2, <<1, 3>>) >>,
         elasticity |-> <<150, 250>>, cross_area |-> <<2, 1>>]

Geometries == {Bar, Skew}

\* every insertion order of a dict's entries
Orders(dict) ==
    {Force([p \in 1..Len(dict) |-> dict[f[p]]]) :
        f \in {g \in [1..Len(dict) -> 1..Len(dict)] :
                 \A a, b \in 1..Len(dict) : a # b => g[a] # g[b]}}

\* the restraint vectors a support entry may hold
SupportFlags == {<<1, 1, 1>>, <<0, 1, 1>>, <<1, 0, 1>>}

\* no entry under a key
Absent == <<>>

\* the dict with the chosen entries of choice (a function from keys to a value
\* or Absent), inserted in ascending key order
RECURSIVE DictOf(_, _)
DictOf(choice, keys) ==
    IF keys = {} THEN <<>>
    ELSE LET k == CHOOSE x \in keys : \A y \in keys : x <= y
         IN  (IF choice[k] = Absent THEN <<>> ELSE <<Entry(k, choice[k])>>)
                 \o DictOf(choice, keys \ {k})

\* supports on the nodes 1..n, and at most one entry whose key names no node
\* (0, or n + 1)
SupportChoices(n) ==
    {DictOf(c, 0..n + 1) :
        c \in {d \in [0..n + 1 -> SupportFlags \cup {Absent}] :
                 /\ d[0] \in {Absent, <<1, 1, 1>>}
                 /\ d[n + 1] \in {Absent, <<1, 1, 1>>}
                 /\ d[0] = Absent \/ d[n + 1] = Absent}}

\* the load a node may carry
Loads == {<<-50, 0, 0>>, <<0, -10, 7>>, <<0, 10, 7>>}

\* loads on at least one and at most MaxLoadedNodes of the nodes 1..n
MaxLoadedNodes == 1
ForceChoices(n) ==
    {DictOf(c, 1..n) :
        c \in {d \in [1..n -> Loads \cup {Absent}] :
                 Cardinality({k \in 1..n : d[k] # Absent}) \in 1..MaxLoadedNodes}}

(***************************************************************************)
(* The state machine of a Truss_3D object                                  *)
(***************************************************************************)
\* __init__: the six inputs are kept, five outputs start as empty lists and
\* member_lengths_ does not exist yet
Init ==
    /\ \E g \in Geometries :
          /\ nodes = g.nodes
          /\ elements \in Orders(g.elements)
          /\ elasticity = g.elasticity
          /\ cross_area = g.cross_area
          /\ supports \in SupportChoices(Len(g.nodes))
          /\ forces \in ForceChoices(Len(g.nodes))
    /\ K_global_ = <<>>
    /\ displacements_ = <<>>
    /\ reactions_ = <<>>
    /\ member_forces_ = <<>>
    /\ member_stresses_ = <<>>
    /\ member_lengths_ = Unset
    /\ raised = "none"
    /\ call = "none" /\ arg = <<>> /\ ret = <<>>

\* Solve(): it runs up to its first exception.  Steps 4 and 5 raise IndexError
\* on a key that names no slot, Step 6 raises LinAlgError on a singular
\* matrix; otherwise Steps 7 to 11 run, the outputs are assigned, and
\* enumerate(L) on the float L raises TypeError before member_lengths_ is set
Solve ==
    /\ call = "none"
    /\ LET K_global == Assemble_K_Global(nodes, elements, elasticity, cross_area)
           Support_Vector_ == Support_Vector(supports, nodes)
           K_new == Apply_Boundary_Conditions(Support_Vector_, K_global)
           f_new == Assemble_Force_Vector(forces, Support_Vector_, nodes)
           displacements == Inv_Dot(K_new, f_new)
           global_displacements ==
               Truss_Global_Displacement(displacements.u, Support_Vector_, nodes)
           element_displacements ==
               Element_Displacements(global_displacements, elements)
       IN  IF Index_Raises(supports, nodes) \/ Index_Raises(forces, nodes)
           THEN raised' = "IndexError" /\ UNCHANGED outputs
           ELSE IF displacements.raises
           THEN raised' = "LinAlgError" /\ UNCHANGED outputs
           ELSE /\ displacements_' = global_displacements
                /\ reactions_' = Solve_Reactions(K_global, global_displacements)
                /\ member_forces_' = Member_Forces(element_displacements, cross_area,
                                                   elasticity, nodes, elements)
                /\ member_stresses_' = Member_Stresses(element_displacements,
                                                       elasticity, nodes, elements)
                /\ K_global_' = K_global
                /\ raised' = "TypeError"
                /\ UNCHANGED member_lengths_
    /\ UNCHANGED <<inputs, harness>>

Next == Solve

Spec == Init /\ [][Next]_vars

(***************************************************************************)
(* The helpers applied on their own, to inputs of their whole domain       *)
(***************************************************************************)
\* the number of nodes of a helper call is at most MaxNodes
MaxNodes == 2

\* every restraint vector of 0/1 flags
AllFlags == {<<x, y, z>> : x \in 0..1, y \in 0..1, z \in 0..1}

\* the values a reduced displacement may hold
ReducedValues == {RInt(7), Rat(-5, 2)}

Reverse(s) == Force([i \in 1..Len(s) |-> s[Len(s) + 1 - i]])

\* a restrained-DOF list (ascending or descending) of distinct indices in
\* 1..3n with a reduced vector of the matching length
ExpansionArgs(n) ==
    UNION {{[Support_Vector |-> sv, displacements |-> u] :
               u \in [1..3 * n - Len(sv) -> ReducedValues]} :
           sv \in UNION {{Ascending(S), Reverse(Ascending(S))} : S \in SUBSET (1..3 * n)}}

InitHelpers ==
    /\ \E n \in 1..MaxNodes :
          /\ nodes = Force([i \in 1..n |-> <<i, 0, 0>>])
          /\ \/ /\ call = "Support_Vector"
                /\ arg \in {DictOf(c, 1..n) : c \in [1..n -> AllFlags \cup {Absent}]}
             \/ /\ call = "Truss_Global_Displacement"
                /\ arg \in ExpansionArgs(n)
    /\ ret = <<>>
    /\ elements = <<>> /\ supports = <<>> /\ forces = <<>>
    /\ elasticity = <<>> /\ cross_area = <<>>
    /\ K_global_ = <<>> /\ displacements_ = <<>> /\ reactions_ = <<>>
    /\ member_forces_ = <<>> /\ member_stresses_ = <<>>
    /\ member_lengths_ = Unset
    /\ raised = "none"

\* Step 4 of Solve on its own
Call_Support_Vector ==
    /\ call = "Support_Vector"
    /\ ret' = <<Support_Vector(arg, nodes)>>
    /\ UNCHANGED <<inputs, outputs, raised, call, arg>>

\* Step 7 of Solve on its own, followed by the reduction of Step 5 applied to
\* the expanded vector
Call_Truss_Global_Displacement ==
    /\ call = "Truss_Global_Displacement"
    /\ LET expanded == Truss_Global_Displacement(arg.displacements,
                                                 arg.Support_Vector, nodes)
       IN  ret' = <<expanded, Delete(expanded, Zero_Based(arg.Support_Vector))>>
    /\ UNCHANGED <<inputs, outputs, raised, call, arg>>

NextHelpers == Call_Support_Vector \/ Call_Truss_Global_Displacement

SpecHelpers == InitHelpers /\ [][NextHelpers]_vars

(***************************************************************************)
(* Vocabulary of the properties                                            *)
(***************************************************************************)
\* some Solve() call has ended
Called == raised # "none"
\* Solve() returned without an exception (no path of the source does)
Completed == raised = "returned"
\* the last Solve() call assigned the output fields
Solved == raised = "TypeError"
\* the outputs as __init__ left them
Untouched ==
    /\ K_global_ = <<>> /\ displacements_ = <<>> /\ reactions_ = <<>>
    /\ member_forces_ = <<>> /\ member_stresses_ = <<>>
    /\ member_lengths_ = Unset
\* elements presents its identifiers in ascending order 1, 2, ...
InOrder == \A p \in 1..Len(elements) : elements[p].key = p

\* every supports key names a node, 1..len(nodes)
ValidKeys == \A p \in 1..Len(supports) : supports[p].key \in 1..Len(nodes)
\* every restraint vector has equal y and z flags
FlagsAgree == \A p \in 1..Len(supports) : supports[p].val[3] = supports[p].val[2]
\* inputs on which neither the order of elements, nor a key that names no
\* node, nor a z flag unlike the y flag plays a part
Plain == InOrder /\ ValidKeys /\ FlagsAgree

\* the change of length of an element along its axis when its ends move by
\* the displacement vector d: positive when it elongates
Elongation(element, d) ==
    LET c == Direction_Cosines(element, nodes, elements)
        i == Lookup(elements, element)[1]
        j == Lookup(elements, element)[2]
    IN  RSum(Force([a \in 1..3 |->
            RMul(c[a], RSub(d[3 * j - 3 + a], d[3 * i - 3 + a]))]))

\* d with every entry rounded to 5 decimals
Rounded(d) == Force([i \in 1..Len(d) |-> RoundDecimals(d[i], 100000)])

\* the 2-node truss of the specification's concrete scenario: node 1 fully
\* fixed, node 2 without a support entry, the load (-50, 0, 0) at node 2
Scenario ==
    /\ nodes = << <<0, 0, 0>>, <<10, 0, 0>> >>
    /\ elements = << Entry(1, <<1, 2>>) >>
    /\ elasticity = <<200>> /\ cross_area = <<1>>
    /\ supports = << Entry(1, <<1, 1, 1>>) >>
    /\ forces = << Entry(2, <<-50, 0, 0>>) >>

\* the same truss with node 2 held in y and z, free along the bar
ScenarioGuided ==
    /\ nodes = << <<0, 0, 0>>, <<10, 0, 0>> >>
    /\ elements = << Entry(1, <<1, 2>>) >>
    /\ elasticity = <<200>> /\ cross_area = <<1>>
    /\ supports = << Entry(1, <<1, 1, 1>>), Entry(2, <<0, 1, 1>>) >>
    /\ forces = << Entry(2, <<-50, 0, 0>>) >>

(***************************************************************************)
(* C1                                                                      *)
(***************************************************************************)
\* C1 (as claimed): on the scenario truss Solve() completes and reports
\* member force 50 for element 1, x-displacement -2.5 at global DOF 4 and
\* the reactions (50, 0, 0) at global DOFs 1..3.
C1_Original ==
    (Scenario /\ Called) =>
        /\ Completed
        /\ Len(displacements_) = 6 /\ displacements_[4] = Rat(-5, 2)
        /\ Len(reactions_) = 6
        /\ <<reactions_[1], reactions_[2], reactions_[3]>> = <<RInt(50), RZero, RZero>>
        /\ member_forces_[1] = RInt(50)

\* C1 (amended): on the scenario truss Solve() ends with the singular-matrix
\* error of Step 6 and stores nothing (node 2 has no stiffness in y and z);
\* once node 2 is held in y and z, Solve() stores x-displacement -2.5 at DOF
\* 4, the reactions (50, 0, 0) at DOFs 1..3 and the member force -50 and
\* stress -50 for element 1, and then ends with the TypeError of the
\* member-length loop.
C1_Amended ==
    /\ (Scenario /\ Called) => (raised = "LinAlgError" /\ Untouched)
    /\ (ScenarioGuided /\ Called) =>
          /\ raised = "TypeError"
          /\ displacements_ = <<RZero, RZero, RZero, Rat(-5, 2), RZero, RZero>>
          /\ <<reactions_[1], reactions_[2], reactions_[3]>> = <<RInt(50), RZero, RZero>>
          /\ member_forces_[1] = RInt(-50)
          /\ member_stresses_[1] = RInt(-50)
          /\ member_lengths_ = Unset

\* the scenario truss after its Solve() call
C1_Witness == Scenario /\ raised = "LinAlgError"

(***************************************************************************)
(* C2                                                                      *)
(***************************************************************************)
\* C2 (as claimed): the member force and stress stored under an element's
\* identifier are positive when the member shortens (compression) and
\* negative when it elongates (tension).  Stated on Plain inputs.
C2_Original ==
    (Solved /\ Plain) =>
        \A e \in Keys(elements) :
            LET dl == Elongation(e, displacements_)
            IN  /\ RSign(dl) < 0 =>
                     RSign(member_forces_[e]) > 0 /\ RSign(member_stresses_[e]) > 0
                /\ RSign(dl) > 0 =>
                     RSign(member_forces_[e]) < 0 /\ RSign(member_stresses_[e]) < 0

\* C2 (amended): when elements presents its identifiers in ascending order,
\* the member force and stress stored under an element's identifier are
\* negative when the member shortens (compression) and positive when it
\* elongates (tension), the change of length being taken on the end
\* displacements rounded to 5 decimals, as the code takes it.
C2_Amended ==
    (Solved /\ InOrder) =>
        \A e \in Keys(elements) :
            LET dl == Elongation(e, Rounded(displacements_))
            IN  /\ RSign(member_forces_[e]) = RSign(dl)
                /\ RSign(member_stresses_[e]) = RSign(dl)

\* a solved truss with one member in compression and another in tension
C2_Witness ==
    /\ Solved /\ InOrder
    /\ \E e1, e2 \in Keys(elements) :
          /\ RSign(Elongation(e1, Rounded(displacements_))) < 0
          /\ RSign(member_forces_[e1]) < 0
          /\ RSign(Elongation(e2, Rounded(displacements_))) > 0
          /\ RSign(member_forces_[e2]) > 0

(***************************************************************************)
(* C3                                                                      *)
(***************************************************************************)
\* the DOFs 3n - 2 + a (a = 0, 1, 2 for x, y, z) that a supports mapping
\* flags with 1 on the nodes 1..n_nodes
Flagged(supports_, n_nodes) ==
    UNION {{3 * supports_[p].key - 2 + a :
               a \in {b \in 0..2 : supports_[p].val[b + 1] = 1}} :
           p \in {q \in 1..Len(supports_) : supports_[q].key \in 1..n_nodes}}

\* C3 (as claimed): the restrained-DOF extraction returns exactly the
\* ascending list of the DOFs 3n - 2 + a whose flag supports[n][a] is 1; the
\* z DOF 3n is in it if and only if the node's z flag is 1.
C3_Original ==
    (call = "Support_Vector" /\ ret # <<>>) =>
        ret[1] = Ascending(Flagged(arg, Len(nodes)))

(***************************************************************************)
(* C4                                                                      *)
(***************************************************************************)
\* C4 (as claimed): after a Solve() that stores a displacement vector, the
\* entry of displacements_ at every DOF the supports mapping flags as fixed
\* is exactly 0.  Stated on inputs with elements in ascending order and
\* every supports key a node.
C4_Original ==
    (Solved /\ InOrder /\ ValidKeys) =>
        \A i \in Flagged(supports, Len(nodes)) : displacements_[i] = RZero

(***************************************************************************)
(* C5                                                                      *)
(***************************************************************************)
\* the sum of v over the DOFs of S that lie on axis a (1, 2, 3 for x, y, z)
AxisSum(v, S, a) ==
    LET dofs == Ascending({i \in S : i % 3 = a % 3})
    IN  RSum(Force([k \in 1..Len(dofs) |-> v[dofs[k]]]))

\* the sum of all applied nodal loads along axis a
AppliedSum(a) == RSum(Force([p \in 1..Len(forces) |-> RInt(forces[p].val[a])]))

\* C5 (as claimed): for a stable structure and any loads, loads at supported
\* nodes included, the reactions over the restrained DOFs sum, axis by axis,
\* to the negative of the sum of all applied nodal loads.  Stated on Plain
\* inputs, where the flagged DOFs are the ones Solve() restrains.
C5_Original ==
    (Solved /\ Plain) =>
        \A a \in 1..3 :
            AxisSum(reactions_, Flagged(supports, Len(nodes)), a) = RNeg(AppliedSum(a))

(***************************************************************************)
(* C6                                                                      *)
(***************************************************************************)
\* C6 (as claimed): Solve() is all-or-nothing: a call that ends in an error
\* leaves every output field as it was, and a call that changes an output
\* field produces the complete result set, member_lengths_ included.  Stated
\* on Plain inputs.
C6_Original ==
    [][Plain =>
         /\ (raised' # "none" /\ raised' # "returned") => outputs' = outputs
         /\ outputs' # outputs => member_lengths_' # Unset]_vars

(***************************************************************************)
(* C7                                                                      *)
(***************************************************************************)
\* C7 (as claimed): for a well-posed structure (members of positive length,
\* invertible reduced stiffness) Solve() finishes without error and exposes
\* a member-length mapping with exactly one entry per element identifier,
\* the element's Euclidean length.  Stated on Plain inputs.
C7_Original ==
    (Called /\ Plain /\ raised \notin {"IndexError", "LinAlgError"}) =>
        /\ Completed
        /\ member_lengths_ # Unset
        /\ DOMAIN member_lengths_ = Keys(elements)
        /\ \A key \in Keys(elements) :
              LET i == nodes[Lookup(elements, key)[1]]
                  j == nodes[Lookup(elements, key)[2]]
                  L == member_lengths_[key]
              IN  /\ L[2] = 1 /\ L[1] >= 0
                  /\ L[1] * L[1] = (j[1] - i[1]) * (j[1] - i[1])
                                     + (j[2] - i[2]) * (j[2] - i[2])
                                     + (j[3] - i[3]) * (j[3] - i[3])

(***************************************************************************)
(* C8                                                                      *)
(***************************************************************************)
\* the sum of every element's own stiffness at the DOFs of its own end nodes
RECURSIVE Own_Sum(_, _)
Own_Sum(K, p) ==
    IF p > Len(elements) THEN K
    ELSE Own_Sum(
             Assemble_Global_Stiffness(K,
                 Assemble_Stiffness_Matrix(elements[p].key, elasticity, cross_area,
                                           nodes, elements),
                 elements[p].val[1], elements[p].val[2]),
             p + 1)

\* C8 (as claimed): K_global_ is the sum of the per-element contributions,
\* each added at the DOFs of that element's own end nodes, whatever the order
\* in which the elements mapping presents its elements.  Stated on inputs
\* with every supports key a node and a node that moves.
C8_Original ==
    (Solved /\ ValidKeys /\ \E i \in 1..Len(displacements_) : displacements_[i] # RZero)
        => K_global_ = Own_Sum(ZeroMat(3 * Len(nodes)), 1)

(***************************************************************************)
(* C9                                                                      *)
(***************************************************************************)
\* the supports flag no DOF, flag all 3N DOFs, or name a node outside 1..N
InvalidSupports ==
    \/ Flagged(supports, Len(nodes)) = {}
    \/ Flagged(supports, Len(nodes)) = 1..3 * Len(nodes)
    \/ \E p \in 1..Len(supports) : supports[p].key \notin 1..Len(nodes)

\* C9 (as claimed): Solve() fails with an error, without producing results,
\* whenever the restrained-DOF set is empty, covers all 3N DOFs, or the
\* supports name a node outside 1..N; no such entry is applied to another
\* node.  Stated on inputs with elements in ascending order and equal y and
\* z flags.
C9_Original ==
    (Called /\ InOrder /\ FlagsAgree /\ InvalidSupports) => (~Completed /\ Untouched)

(***************************************************************************)
(* C10                                                                     *)
(***************************************************************************)
Range(s) == {s[i] : i \in 1..Len(s)}

\* C10: for a restrained-DOF list of R distinct indices in 1..3N and a
\* reduced vector u of length 3N - R, the expanded vector has length 3N, its
\* free DOFs taken in ascending order hold u[0], u[1], ... in that order, and
\* deleting the restrained entries from it gives u back.
C10_Expansion_Inverts_Reduction ==
    (call = "Truss_Global_Displacement" /\ ret # <<>>) =>
        LET u == arg.displacements
            free == Ascending((1..3 * Len(nodes)) \ Range(arg.Support_Vector))
        IN  /\ Len(ret[1]) = 3 * Len(nodes)
            /\ \A a \in 1..Len(free) : ret[1][free[a]] = u[a]
            /\ ret[2] = u

\* an expansion around a restrained DOF in the middle: free DOFs lie on both
\* sides of it and the reduced values differ
C10_Witness ==
    /\ call = "Truss_Global_Displacement" /\ ret # <<>>
    /\ Len(nodes) = 2
    /\ Range(arg.Support_Vector) = {2, 3, 5}
    /\ arg.displacements = <<RInt(7), Rat(-5, 2), RInt(7)>>
    /\ ret[1] = <<RInt(7), RZero, RZero, Rat(-5, 2), RZero, RInt(7)>>

====
